---- MODULE Spec2Model ----
(***************************************************************************)
(* A model of the EZAIMD simulation engine (src/src/simulation.rs,         *)
(* src/src/atom.rs, src/src/main.rs): one process at a time is started     *)
(* fresh or with the restart flag, runs the bootstrap and the step loop,   *)
(* and may die at any operation that can panic.  The files of the working  *)
(* directory (save.json, trajectory.xyz, energy.txt, velocity.txt,         *)
(* kinetic.txt, input.com, forces.out) outlive the process.                *)
(*                                                                         *)
(* Numbers.  An f64 is modelled exactly, as NaN or as a polynomial with    *)
(* integer coefficients in one symbol S, the finite positive scalar that   *)
(* scale_temp computes for the simulation at hand (an irrational square    *)
(* root in general).  <<>> is 0, <<3>> is 3, <<0, 2>> is 2*S.  Inputs are  *)
(* drawn so that every division of the code is exact on these values.      *)
(* Rounding of f64 arithmetic is not represented.  Three constants of the  *)
(* code that are not integers are rounded: the atomic masses (1.008 -> 1,  *)
(* 4.0026 -> 4), and the force unit conversion (0.496147792 -> 1/2).       *)
(***************************************************************************)
EXTENDS Integers, Sequences, FiniteSets

VARIABLES
    pc,             \* position of the running process in main/run, or "stopped"
    exit,           \* how the last process ended
    sim,            \* the Simulation value the process owns
    data,           \* the GaussianOutput read in the current step
    save_json,      \* lines of save.json
    trajectory_xyz, \* entries of trajectory.xyz
    energy_txt,     \* lines of energy.txt after its header
    velocity_txt,   \* blocks of velocity.txt after its header
    kinetic_txt,    \* blocks of kinetic.txt after its header
    input_com,      \* the geometry block of input.com
    forces_out,     \* contents of forces.out
    evaluator,      \* which backend the working directory is configured with
    restarted,      \* whether the running process was started with --restart
    pre,            \* history: the Simulation at the start of the current step
                    \* (in the bootstrap: when init_forces calls scale_temp)
    hist,           \* history: operations done since the last step_num increment
    runs,           \* number of processes started so far
    rescaled,       \* history: times scale_temp was applied to the state in sim
    rescaled_log,   \* history: that number for the state in each line of save.json
    origin,         \* history: the command line of a --restart process and the
                    \* step number it resumed at
    calls           \* history: evaluator calls the running process has made

vars == <<pc, exit, sim, data, save_json, trajectory_xyz, energy_txt, velocity_txt,
          kinetic_txt, input_com, forces_out, evaluator, restarted, pre,
          hist, runs, rescaled, rescaled_log, origin, calls>>

----------------------------------------------------------------------------
(* Bounds of the model *)

NumAtoms == 2       \* atoms in the input geometry
MaxSteps == 2       \* largest --num-steps
MaxRuns == 3        \* processes started one after the other

TimeSteps == {2}    \* values of --time-step
StepCounts == {0, MaxSteps}   \* values of --num-steps
Seeds == {1, 2}     \* outcomes of the random velocity sampling
EvalKinds == {"zero", "field", "short"}

----------------------------------------------------------------------------
(* f64 values *)

Max(a, b) == IF a >= b THEN a ELSE b

\* the element of a one-element set: { e(v) : v \in {x} } computes x once
The(set) == CHOOSE r \in set : TRUE

Coef(p, i) == IF i <= Len(p) THEN p[i] ELSE 0

RECURSIVE Trim(_)
Trim(p) ==
    IF p = <<>> THEN <<>>
    ELSE IF p[Len(p)] = 0 THEN Trim(SubSeq(p, 1, Len(p) - 1))
    ELSE p

RECURSIVE SumTo(_, _)
SumTo(f, n) == IF n = 0 THEN 0 ELSE f[n] + SumTo(f, n - 1)

PAdd(p, q) == Trim([i \in 1..Max(Len(p), Len(q)) |-> Coef(p, i) + Coef(q, i)])

PScale(p, n, d) == Trim([i \in 1..Len(p) |-> (p[i] * n) \div d])

PMul(p, q) ==
    IF p = <<>> \/ q = <<>> THEN <<>>
    ELSE Trim([k \in 1..(Len(p) + Len(q) - 1) |->
                 SumTo([i \in 1..k |-> Coef(p, i) * Coef(q, k - i + 1)], k)])

NaN == [nan |-> TRUE, p |-> <<>>]

F64(n) == [nan |-> FALSE, p |-> IF n = 0 THEN <<>> ELSE <<n>>]

Zero == F64(0)

\* the scalar of scale_temp when the kinetic energy is positive and finite
S == [nan |-> FALSE, p |-> <<0, 1>>]

fadd(a, b) == IF a.nan \/ b.nan THEN NaN ELSE [nan |-> FALSE, p |-> PAdd(a.p, b.p)]

fmul(a, b) == IF a.nan \/ b.nan THEN NaN ELSE [nan |-> FALSE, p |-> PMul(a.p, b.p)]

\* a * (n / d) for integers n, d: the product of a with literals and finite inputs
fscale(a, n, d) == IF a.nan THEN NaN ELSE [nan |-> FALSE, p |-> PScale(a.p, n, d)]

fsub(a, b) == fadd(a, fscale(b, -1, 1))

----------------------------------------------------------------------------
(* Vector3D and the Vectored wrappers (Position, Velocity, Force) *)

Vector3D(x, y, z) == [x |-> x, y |-> y, z |-> z]

ZeroVec == Vector3D(Zero, Zero, Zero)

NaNVec == Vector3D(NaN, NaN, NaN)

vec_add(a, b) == Vector3D(fadd(a.x, b.x), fadd(a.y, b.y), fadd(a.z, b.z))

vec_sub(a, b) == Vector3D(fsub(a.x, b.x), fsub(a.y, b.y), fsub(a.z, b.z))

\* v * (n / d)
vec_scale(v, n, d) == Vector3D(fscale(v.x, n, d), fscale(v.y, n, d), fscale(v.z, n, d))

\* v * rhs for an f64 rhs
vec_mul(v, rhs) == Vector3D(fmul(v.x, rhs), fmul(v.y, rhs), fmul(v.z, rhs))

sqr_norm(v) == fadd(fadd(fmul(v.x, v.x), fmul(v.y, v.y)), fmul(v.z, v.z))

----------------------------------------------------------------------------
(* Atoms and their ingestion *)

\* the species table: atomic number -> symbol and mass
gn_symbol(num) ==
    CASE num = 1 -> [symbol |-> "H", mass |-> 1]
      [] num = 2 -> [symbol |-> "He", mass |-> 4]

\* the atomic number and the coordinates of the i-th record of the geometry
AtomicNumber(i) == IF i % 2 = 1 THEN 1 ELSE 2

InputPos(i) == Vector3D(F64(i), F64(0), F64(0 - i))

RECURSIVE TotalMass(_)
TotalMass(n) == IF n = 0 THEN 0 ELSE gn_symbol(AtomicNumber(n)).mass + TotalMass(n - 1)

\* the normal sample drawn for atom i: no two atoms draw the same value, and
\* every sample is a multiple of the total mass
rand_vel(i, seed) == (IF i % 2 = 1 THEN 1 ELSE -1) * seed * i * TotalMass(NumAtoms)

\* the geometry source: the "NAtoms=" line, and the other lines in file order.
\* A line that matches the per-atom pattern holds a centre number, an atomic
\* number and three coordinates.  The source lists an earlier geometry block
\* (other coordinates, and the atomic numbers in the other order) before
\* the final one.
AtomicLine(centre, number, pos) ==
    [matches |-> TRUE, centre |-> centre, number |-> number, pos |-> pos]

OtherLine == [matches |-> FALSE, centre |-> 0, number |-> 0, pos |-> ZeroVec]

EarlierPos(i) == Vector3D(F64(i + 5), F64(1), F64(5 - i))

Buffer ==
    [natoms |-> NumAtoms,
     lines |-> <<OtherLine>>
               \o [i \in 1..NumAtoms |-> AtomicLine(i, AtomicNumber(i + 1), EarlierPos(i))]
               \o <<OtherLine>>
               \o [i \in 1..NumAtoms |-> AtomicLine(i, AtomicNumber(i), InputPos(i))]
               \o <<OtherLine>>]

RECURSIVE Filter(_)
Filter(lines) ==
    IF lines = <<>> THEN <<>>
    ELSE IF Head(lines).matches THEN <<Head(lines)>> \o Filter(Tail(lines))
    ELSE Filter(Tail(lines))

\* the lines of the buffer that match the per-atom pattern, in file order
read_atomic_lines(buffer) == Filter(buffer.lines)

\* the first integer of the first "NAtoms=" line
get_num_atoms(buffer) == buffer.natoms

\* data.into_iter().rev().take(n).rev()
LastLines(lines, n) == SubSeq(lines, Max(1, Len(lines) - n + 1), Len(lines))

\* the sample is drawn per call; the model keys the draw by the centre number
make_atom(line, seed) ==
    LET symbol_mass == gn_symbol(line.number)
        velocity == F64(rand_vel(line.centre, seed))
    IN  [symbol |-> symbol_mass.symbol,
         mass |-> symbol_mass.mass,
         can_mv |-> TRUE,
         pos |-> line.pos,
         vel |-> Vector3D(velocity, velocity, velocity),
         force |-> ZeroVec,
         next_force |-> ZeroVec]

RECURSIVE SumVec(_, _)
SumVec(vs, n) == IF n = 0 THEN ZeroVec ELSE vec_add(SumVec(vs, n - 1), vs[n])

RECURSIVE SumInt(_, _)
SumInt(ns, n) == IF n = 0 THEN 0 ELSE SumInt(ns, n - 1) + ns[n]

RECURSIVE SumF64(_, _)
SumF64(fs, n) == IF n = 0 THEN Zero ELSE fadd(SumF64(fs, n - 1), fs[n])

apply_to_atom(atom, value) == [atom EXCEPT !.vel = vec_sub(atom.vel, value)]

rm_cmv(atoms) ==
    LET cmv_mv == SumVec([i \in 1..Len(atoms) |-> vec_scale(atoms[i].vel, atoms[i].mass, 1)],
                         Len(atoms))
        cmv_m == SumInt([i \in 1..Len(atoms) |-> atoms[i].mass], Len(atoms))
    IN  The({[i \in 1..Len(atoms) |-> apply_to_atom(atoms[i], cmv)] :
                cmv \in {vec_scale(cmv_mv, 1, cmv_m)}})

\* mutant: the first num_atoms matching lines are taken
gn_atoms_FirstLines(seed) ==
    The({The({rm_cmv(atoms) :
                 atoms \in {[i \in 1..Len(atomic_lines) |-> make_atom(atomic_lines[i], seed)]}}) :
            atomic_lines \in {SubSeq(read_atomic_lines(Buffer), 1, get_num_atoms(Buffer))}})

gn_atoms(seed) ==
    The({The({rm_cmv(atoms) :
                 atoms \in {[i \in 1..Len(atomic_lines) |-> make_atom(atomic_lines[i], seed)]}}) :
            atomic_lines \in {LastLines(read_atomic_lines(Buffer), get_num_atoms(Buffer))}})

----------------------------------------------------------------------------
(* Command line arguments (cli.rs) and Simulation::new *)

None == [some |-> FALSE, value |-> <<>>]

Some(v) == [some |-> TRUE, value |-> v]

\* --freeze expressions, each token already split at "-" into its integers
FreezeArgs ==
    {None, Some(<< <<NumAtoms, NumAtoms>> >>), Some(<< <<1, NumAtoms>> >>),
     Some(<< <<1, 1>>, <<1, NumAtoms>> >>)}

\* a command line with a time step that is not > 0: clap parses any f64
InvalidArgs == {[time_step |-> 0, num_steps |-> 0, freeze |-> None]}

Args == [time_step : TimeSteps, num_steps : StepCounts, freeze : FreezeArgs] \cup InvalidArgs

\* command lines given together with --restart: clap parses the input name and
\* the options of a restarting process as well
RestartArgs ==
    InvalidArgs \cup {a \in Args : a.num_steps = 0 /\ a.freeze = Some(<< <<1, NumAtoms>> >>)}

Range(low, high) == [low |-> low, high |-> high]

\* mutant: low..high without the upper end
gen_numbers_Exclusive(range) == [k \in 1..(range.high - range.low) |-> range.low + k - 1]

gen_numbers(range) == [k \in 1..(range.high - range.low + 1) |-> range.low + k - 1]

convert_to_range(line) == Range(line[1], line[2])

RECURSIVE Flatten(_)
Flatten(seqs) == IF seqs = <<>> THEN <<>> ELSE Head(seqs) \o Flatten(Tail(seqs))

parse_string(string) ==
    Flatten([k \in 1..Len(string) |-> gen_numbers(convert_to_range(string[k]))])

\* for value in to_freeze: atoms[value - 1] is frozen
freeze_atoms(atoms, string) ==
    The({[i \in 1..Len(atoms) |->
            IF \E k \in 1..Len(to_freeze) : to_freeze[k] = i
            THEN [atoms[i] EXCEPT !.can_mv = FALSE, !.vel = ZeroVec]
            ELSE atoms[i]] : to_freeze \in {parse_string(string)}})

new(args, seed) ==
    [atoms |-> The({IF args.freeze.some THEN freeze_atoms(atoms, args.freeze.value)
                    ELSE atoms : atoms \in {gn_atoms(seed)}}),
         time_step |-> args.time_step,
         num_steps |-> args.num_steps,
         step_num |-> 0,
         pot_energy |-> Zero,
         kin_energy |-> Zero,
         tot_energy |-> Zero]

\* the Simulation that new returns, for every command line and every outcome
\* of the sampling, computed once
FreshTable == {<<args, seed, new(args, seed)>> : args \in Args, seed \in Seeds}

Fresh(args, seed) == (CHOOSE r \in FreshTable : r[1] = args /\ r[2] = seed)[3]

\* the value of sim while no process runs
NoSim ==
    [atoms |-> <<>>, time_step |-> 0, num_steps |-> 0, step_num |-> 0,
     pot_energy |-> Zero, kin_energy |-> Zero, tot_energy |-> Zero]

----------------------------------------------------------------------------
(* The velocity-Verlet updates *)

update_pos(s) ==
    LET function(x) ==
            IF x.can_mv
            THEN vec_add(vec_add(x.pos, vec_scale(x.vel, s.time_step, 1)),
                         vec_scale(x.force, s.time_step * s.time_step, 2 * x.mass))
            ELSE x.pos
    IN  [s EXCEPT !.atoms = [i \in 1..Len(s.atoms) |->
                                [s.atoms[i] EXCEPT !.pos = function(s.atoms[i])]]]

\* mutant: the velocity half-step uses the new force alone
update_vel_NewForceOnly(s) ==
    LET function(x) ==
            IF x.can_mv
            THEN vec_add(x.vel, vec_scale(vec_add(x.next_force, x.next_force),
                                          s.time_step, 2 * x.mass))
            ELSE x.vel
    IN  [s EXCEPT !.atoms = [i \in 1..Len(s.atoms) |->
                                [s.atoms[i] EXCEPT !.vel = function(s.atoms[i]),
                                                   !.force = s.atoms[i].next_force]]]

\* mutant: the force is carried forward for the mobile atoms alone
update_vel_MobileCarry(s) ==
    LET function(x) ==
            IF x.can_mv
            THEN vec_add(x.vel, vec_scale(vec_add(x.force, x.next_force),
                                          s.time_step, 2 * x.mass))
            ELSE x.vel
    IN  [s EXCEPT !.atoms = [i \in 1..Len(s.atoms) |->
                                IF s.atoms[i].can_mv
                                THEN [s.atoms[i] EXCEPT !.vel = function(s.atoms[i]),
                                                        !.force = s.atoms[i].next_force]
                                ELSE s.atoms[i]]]

update_vel(s) ==
    LET function(x) ==
            IF x.can_mv
            THEN vec_add(x.vel, vec_scale(vec_add(x.force, x.next_force),
                                          s.time_step, 2 * x.mass))
            ELSE x.vel
    IN  [s EXCEPT !.atoms = [i \in 1..Len(s.atoms) |->
                                [s.atoms[i] EXCEPT !.vel = function(s.atoms[i]),
                                                   !.force = s.atoms[i].next_force]]]

\* mutant: the forces are stored from the last atom backwards
update_forces_Reversed(s, forces) ==
    [s EXCEPT !.atoms = [i \in 1..Len(s.atoms) |->
                            IF Len(s.atoms) + 1 - i <= Len(forces)
                            THEN [s.atoms[i] EXCEPT !.force = forces[Len(s.atoms) + 1 - i]]
                            ELSE s.atoms[i]]]

update_forces(s, forces) ==
    [s EXCEPT !.atoms = [i \in 1..Len(s.atoms) |->
                            IF i <= Len(forces)
                            THEN [s.atoms[i] EXCEPT !.force = forces[i]]
                            ELSE s.atoms[i]]]

update_next_forces(s, forces) ==
    [s EXCEPT !.atoms = [i \in 1..Len(s.atoms) |->
                            IF i <= Len(forces)
                            THEN [s.atoms[i] EXCEPT !.next_force = forces[i]]
                            ELSE s.atoms[i]]]

----------------------------------------------------------------------------
(* Energies and the thermostat *)

KinUnit == 100

\* (value * 2625.5) / 100
update_pot(s, value) == [s EXCEPT !.pot_energy = fscale(value, 26255, 1000)]

\* (sum of 0.5 * mass * |vel|^2) * 100
update_kin(s) ==
    LET value == SumF64([i \in 1..Len(s.atoms) |->
                            fscale(sqr_norm(s.atoms[i].vel), s.atoms[i].mass, 1)],
                        Len(s.atoms))
    IN  [s EXCEPT !.kin_energy = fscale(value, KinUnit, 2)]

update_tot(s) == [s EXCEPT !.tot_energy = fadd(s.pot_energy, s.kin_energy)]

\* scalar = sqrt(RefTemp / ((2/3) * (kin_energy * 100 * 1000 / 8.31446261815324))):
\* NaN for a NaN kinetic energy, +infinity for a zero one (and then every
\* velocity is the zero vector, and 0 * infinity is NaN), and S otherwise
scale_temp(s) ==
    LET scaled(vel) ==
            IF s.kin_energy.nan \/ s.kin_energy = Zero THEN NaNVec ELSE vec_mul(vel, S)
    IN  [s EXCEPT !.atoms = [i \in 1..Len(s.atoms) |->
                                [s.atoms[i] EXCEPT !.vel = scaled(s.atoms[i].vel)]]]

----------------------------------------------------------------------------
(* The external force evaluator, through input.com and forces.out *)

gen_coords(s) ==
    [i \in 1..Len(s.atoms) |->
        [symbol |-> s.atoms[i].symbol,
         x |-> s.atoms[i].pos.x, y |-> s.atoms[i].pos.y, z |-> s.atoms[i].pos.z]]

\* a bounded function of one coordinate, with values -1, 0, 1
Well(f) == IF f.nan THEN 0 ELSE (SumTo(f.p, Len(f.p)) % 3) - 1

\* forces.out as the backend writes it for the geometry of input.com: the
\* "SCF Done" energy and one force line per centre, in Eh/Bohr.  The backend
\* is a function of the whole geometry, so the force on a centre changes when
\* another centre moves; "short" leaves the last force line out.
Gaussian(kind, coords) ==
    LET n == Len(coords)
        centre == SumVec([j \in 1..n |-> Vector3D(coords[j].x, coords[j].y, coords[j].z)], n)
        line(i, w) == Vector3D(F64(16 * (i + w.x)), F64(16 * w.y), F64(16 * (w.z - i)))
    IN  The({CASE kind = "zero" -> [scf |-> F64(1000), forces |-> [i \in 1..n |-> ZeroVec]]
               [] kind = "field" -> [scf |-> F64(1000 * (2 + w.x)),
                                     forces |-> [i \in 1..n |-> line(i, w)]]
               [] kind = "short" -> [scf |-> F64(1000 * (2 + w.x)),
                                     forces |-> [i \in 1..(n - 1) |-> line(i, w)]] :
                w \in {[x |-> Well(centre.x), y |-> Well(centre.y), z |-> Well(centre.z)]}})

NoOutput == [scf |-> Zero, forces |-> <<>>]

\* force * 0.496147792, from Eh/Bohr to the engine's unit
convert_to_force(line) == vec_scale(line, 1, 2)

GaussianOutput_new(file) ==
    [scf |-> file.scf,
     forces |-> [i \in 1..Len(file.forces) |-> convert_to_force(file.forces[i])]]

----------------------------------------------------------------------------
(* save.json: serde_json of the Simulation, one line per checkpoint *)

\* serde_json writes a NaN or infinite f64 as null
json_f64(f) == [null |-> f.nan, p |-> f.p]

json_vec(v) == [x |-> json_f64(v.x), y |-> json_f64(v.y), z |-> json_f64(v.z)]

json_atom(a) ==
    [symbol |-> a.symbol, mass |-> a.mass, can_mv |-> a.can_mv,
     pos |-> json_vec(a.pos), vel |-> json_vec(a.vel),
     force |-> json_vec(a.force), next_force |-> json_vec(a.next_force)]

to_string(s) ==
    [atoms |-> [i \in 1..Len(s.atoms) |-> json_atom(s.atoms[i])],
     time_step |-> s.time_step, num_steps |-> s.num_steps, step_num |-> s.step_num,
     pot_energy |-> json_f64(s.pot_energy), kin_energy |-> json_f64(s.kin_energy),
     tot_energy |-> json_f64(s.tot_energy)]

\* a line of save.json: complete, or cut short by a failed write
Line(s) == [complete |-> TRUE, json |-> to_string(s)]

Torn(s) == [complete |-> FALSE, json |-> to_string(s)]

vec_parses(v) == ~v.x.null /\ ~v.y.null /\ ~v.z.null

\* serde_json::from_str(line) is Ok: null is no f64, a cut line is no object
parses(line) ==
    /\ line.complete
    /\ \A i \in 1..Len(line.json.atoms) :
          /\ vec_parses(line.json.atoms[i].pos)
          /\ vec_parses(line.json.atoms[i].vel)
          /\ vec_parses(line.json.atoms[i].force)
          /\ vec_parses(line.json.atoms[i].next_force)
    /\ ~line.json.pot_energy.null
    /\ ~line.json.kin_energy.null
    /\ ~line.json.tot_energy.null

parse_f64(j) == [nan |-> FALSE, p |-> j.p]

parse_vec(v) == Vector3D(parse_f64(v.x), parse_f64(v.y), parse_f64(v.z))

parse_atom(a) ==
    [symbol |-> a.symbol, mass |-> a.mass, can_mv |-> a.can_mv,
     pos |-> parse_vec(a.pos), vel |-> parse_vec(a.vel),
     force |-> parse_vec(a.force), next_force |-> parse_vec(a.next_force)]

from_str(line) ==
    [atoms |-> [i \in 1..Len(line.json.atoms) |-> parse_atom(line.json.atoms[i])],
     time_step |-> line.json.time_step, num_steps |-> line.json.num_steps,
     step_num |-> line.json.step_num,
     pot_energy |-> parse_f64(line.json.pot_energy),
     kin_energy |-> parse_f64(line.json.kin_energy),
     tot_energy |-> parse_f64(line.json.tot_energy)]

\* read_to_vec unwraps the parse of every line
read_to_vec_ok(lines) == \A k \in 1..Len(lines) : parses(lines[k])

read_to_vec(lines) == [k \in 1..Len(lines) |-> from_str(lines[k])]

\* from_save unwraps the last element
from_save_ok(lines) == read_to_vec_ok(lines) /\ lines # <<>>

\* mutant: the step number of the record is kept
from_save_NoIncrement(lines) == read_to_vec(lines)[Len(lines)]

\* mutant: the first record is read
from_save_First(lines) ==
    LET simulation == read_to_vec(lines)[1]
    IN  [simulation EXCEPT !.step_num = simulation.step_num + 1]

from_save(lines) ==
    LET simulation == read_to_vec(lines)[Len(lines)]
    IN  [simulation EXCEPT !.step_num = simulation.step_num + 1]

----------------------------------------------------------------------------
(* The reports *)

\* the block report_trajectory appends; of_step is history, not in the file
trajectory_block(s) ==
    [natoms |-> Len(s.atoms), coords |-> gen_coords(s), of_step |-> s.step_num]

\* the line report_energy appends; of_step is history, not in the file
energy_line(s) ==
    [time |-> s.step_num * s.time_step, pot |-> s.pot_energy, kin |-> s.kin_energy,
     tot |-> s.tot_energy, of_step |-> s.step_num]

velocity_block(s) ==
    [i \in 1..Len(s.atoms) |->
        [index |-> i, symbol |-> s.atoms[i].symbol, vel |-> s.atoms[i].vel]]

kinetic_block(s) ==
    [i \in 1..Len(s.atoms) |->
        [index |-> i, symbol |-> s.atoms[i].symbol,
         kin |-> fscale(sqr_norm(s.atoms[i].vel), s.atoms[i].mass * KinUnit, 2)]]

----------------------------------------------------------------------------
(* The process: main, init_forces, run *)

Init ==
    /\ pc = "stopped"
    /\ exit = "none"
    /\ sim = NoSim
    /\ data = NoOutput
    /\ save_json = <<>>
    /\ trajectory_xyz = <<>>
    /\ energy_txt = <<>>
    /\ velocity_txt = <<>>
    /\ kinetic_txt = <<>>
    /\ input_com = <<>>
    /\ forces_out = NoOutput
    /\ evaluator \in EvalKinds
    /\ restarted = FALSE
    /\ pre = NoSim
    /\ hist = <<>>
    /\ runs = 0
    /\ rescaled = 0
    /\ rescaled_log = <<>>
    /\ origin = None
    /\ calls = 0

files == <<save_json, trajectory_xyz, energy_txt, velocity_txt, kinetic_txt>>

backend == <<input_com, forces_out, evaluator>>

\* the process is gone, and its memory with it
Stopped(how) ==
    /\ pc' = "stopped"
    /\ exit' = how
    /\ sim' = NoSim
    /\ data' = NoOutput
    /\ pre' = NoSim
    /\ hist' = <<>>
    /\ restarted' = FALSE
    /\ rescaled' = 0
    /\ origin' = None
    /\ calls' = 0

\* mutant: the files are truncated before init_forces is called
MainNew_InitFiles(args, seed) ==
    /\ pc = "stopped"
    /\ runs < MaxRuns
    /\ runs' = runs + 1
    /\ sim' = Fresh(args, seed)
    /\ pc' = "init_forces"
    /\ exit' = "running"
    /\ restarted' = FALSE
    /\ rescaled' = 0
    /\ origin' = None
    /\ calls' = 0
    /\ save_json' = <<>>
    /\ trajectory_xyz' = <<>>
    /\ energy_txt' = <<>>
    /\ velocity_txt' = <<>>
    /\ kinetic_txt' = <<>>
    /\ rescaled_log' = <<>>
    /\ UNCHANGED <<data, pre, hist, backend>>

\* main without --restart, up to the call of init_forces
MainNew(args, seed) ==
    /\ pc = "stopped"
    /\ runs < MaxRuns
    /\ runs' = runs + 1
    /\ sim' = Fresh(args, seed)
    /\ pc' = "init_forces"
    /\ exit' = "running"
    /\ restarted' = FALSE
    /\ rescaled' = 0
    /\ origin' = None
    /\ calls' = 0
    /\ UNCHANGED <<data, pre, hist, files, backend, rescaled_log>>

\* mutant: a restarted process calls init_forces too
MainFromSave_InitForces(args) ==
    /\ pc = "stopped"
    /\ runs < MaxRuns
    /\ from_save_ok(save_json)
    /\ runs' = runs + 1
    /\ sim' = from_save(save_json)
    /\ pc' = "init_forces"
    /\ exit' = "running"
    /\ restarted' = TRUE
    /\ rescaled' = rescaled_log[Len(rescaled_log)]
    /\ origin' = Some([args |-> args, step_num |-> sim'.step_num])
    /\ calls' = 0
    /\ UNCHANGED <<data, pre, hist, files, backend, rescaled_log>>

\* mutant: a restarted process takes the time step and the step count of its
\* command line
MainFromSave_UseArgs(args) ==
    /\ pc = "stopped"
    /\ runs < MaxRuns
    /\ from_save_ok(save_json)
    /\ runs' = runs + 1
    /\ sim' = [from_save(save_json) EXCEPT !.time_step = args.time_step,
                                           !.num_steps = args.num_steps]
    /\ pc' = "run"
    /\ exit' = "running"
    /\ restarted' = TRUE
    /\ rescaled' = rescaled_log[Len(rescaled_log)]
    /\ origin' = Some([args |-> args, step_num |-> sim'.step_num])
    /\ calls' = 0
    /\ UNCHANGED <<data, pre, hist, files, backend, rescaled_log>>

\* main with --restart, up to the call of run
MainFromSave(args) ==
    /\ pc = "stopped"
    /\ runs < MaxRuns
    /\ from_save_ok(save_json)
    /\ runs' = runs + 1
    /\ sim' = from_save(save_json)
    /\ pc' = "run"
    /\ exit' = "running"
    /\ restarted' = TRUE
    /\ rescaled' = rescaled_log[Len(rescaled_log)]
    /\ origin' = Some([args |-> args, step_num |-> sim'.step_num])
    /\ calls' = 0
    /\ UNCHANGED <<data, pre, hist, files, backend, rescaled_log>>

\* main with --restart when from_save panics
MainFromSavePanics ==
    /\ pc = "stopped"
    /\ runs < MaxRuns
    /\ ~from_save_ok(save_json)
    /\ runs' = runs + 1
    /\ exit' = "from_save_panic"
    /\ UNCHANGED <<pc, sim, restarted, data, pre, hist, files, backend, rescaled, rescaled_log,
                   origin, calls>>

\* generate_input, run_gaussian, read_gaussian
CallGaussian ==
    \E coords \in {gen_coords(sim)} :
        \E output \in {Gaussian(evaluator, coords)} :
            /\ input_com' = coords
            /\ forces_out' = output
            /\ data' = GaussianOutput_new(output)
            /\ calls' = calls + 1
            /\ UNCHANGED evaluator

\* history: the Simulation of init_forces when it calls scale_temp
before_scale_temp(s, d) ==
    The({update_kin(s2) : s2 \in {update_pot(s1, d.scf) :
         s1 \in {update_forces(s, d.forces)}}})

\* mutant: the kinetic energy is not recomputed after scale_temp
init_forces_NoRecompute(s, d) ==
    The({update_tot(s4) : s4 \in {scale_temp(s3) :
         s3 \in {update_kin(s2) : s2 \in {update_pot(s1, d.scf) :
         s1 \in {update_forces(s, d.forces)}}}}})

\* mutant: the bootstrap stores the forces in next_force
init_forces_NextForce(s, d) ==
    The({update_tot(s5) : s5 \in {update_kin(s4) : s4 \in {scale_temp(s3) :
         s3 \in {update_kin(s2) : s2 \in {update_pot(s1, d.scf) :
         s1 \in {update_next_forces(s, d.forces)}}}}}})

\* update_forces(data.forces).update_pot(data.scf).update_kin().scale_temp()
\*     .update_kin().update_tot()
init_forces(s, d) ==
    The({update_tot(s5) : s5 \in {update_kin(s4) : s4 \in {scale_temp(s3) :
         s3 \in {update_kin(s2) : s2 \in {update_pot(s1, d.scf) :
         s1 \in {update_forces(s, d.forces)}}}}}})

InitForces ==
    /\ pc = "init_forces"
    /\ CallGaussian
    /\ sim' = init_forces(sim, data')
    /\ pre' = before_scale_temp(sim, data')
    /\ rescaled' = rescaled + 1
    /\ pc' = "run"
    /\ UNCHANGED <<exit, restarted, hist, files, runs, rescaled_log,
                   origin>>

\* the backend fails or writes no usable forces.out: an expect or unwrap panics
EvaluatorFails ==
    /\ pc \in {"init_forces", "evaluate"}
    /\ input_com' = gen_coords(sim)
    /\ forces_out' = NoOutput
    /\ Stopped("evaluator")
    /\ UNCHANGED <<evaluator, files, runs, rescaled_log>>

\* run, step_num == 0: init_files truncates every file
InitFiles ==
    /\ pc = "run"
    /\ sim.step_num = 0
    /\ save_json' = <<>>
    /\ trajectory_xyz' = <<>>
    /\ energy_txt' = <<>>
    /\ velocity_txt' = <<>>
    /\ kinetic_txt' = <<>>
    /\ rescaled_log' = <<>>
    /\ pc' = "boot_trajectory"
    /\ UNCHANGED <<exit, sim, data, restarted, pre, hist, backend, runs, rescaled,
                   origin, calls>>

\* run, step_num != 0: the bootstrap block is skipped
SkipBootstrap ==
    /\ pc = "run"
    /\ sim.step_num # 0
    /\ pc' = "loop"
    /\ UNCHANGED <<exit, sim, data, restarted, pre, hist, files, backend, runs, rescaled,
                   rescaled_log,
                   origin, calls>>

\* mutant: the step number is incremented before the checkpoint is written
AfterPc_IncrementFirst(p) ==
    CASE p = "boot_trajectory" -> "boot_energy"
      [] p = "boot_energy" -> "boot_velocity"
      [] p = "boot_velocity" -> "boot_kinetic"
      [] p = "boot_kinetic" -> "boot_save"
      [] p = "boot_save" -> "boot_increment"
      [] p = "boot_increment" -> "loop"
      [] p = "update_pos" -> "evaluate"
      [] p = "evaluate" -> "update_vel"
      [] p = "update_vel" -> "report_trajectory"
      [] p = "report_trajectory" -> "report_energy"
      [] p = "report_energy" -> "increment"
      [] p = "increment" -> "save"
      [] p = "save" -> "loop"

\* mutant: the checkpoint is written before the reports
AfterPc_SaveFirst(p) ==
    CASE p = "boot_trajectory" -> "boot_energy"
      [] p = "boot_energy" -> "boot_velocity"
      [] p = "boot_velocity" -> "boot_kinetic"
      [] p = "boot_kinetic" -> "boot_save"
      [] p = "boot_save" -> "boot_increment"
      [] p = "boot_increment" -> "loop"
      [] p = "update_pos" -> "evaluate"
      [] p = "evaluate" -> "update_vel"
      [] p = "update_vel" -> "save"
      [] p = "save" -> "report_trajectory"
      [] p = "report_trajectory" -> "report_energy"
      [] p = "report_energy" -> "increment"
      [] p = "increment" -> "loop"

\* the statement after p in run
AfterPc(p) ==
    CASE p = "boot_trajectory" -> "boot_energy"
      [] p = "boot_energy" -> "boot_velocity"
      [] p = "boot_velocity" -> "boot_kinetic"
      [] p = "boot_kinetic" -> "boot_save"
      [] p = "boot_save" -> "boot_increment"
      [] p = "boot_increment" -> "loop"
      [] p = "update_pos" -> "evaluate"
      [] p = "evaluate" -> "update_vel"
      [] p = "update_vel" -> "report_trajectory"
      [] p = "report_trajectory" -> "report_energy"
      [] p = "report_energy" -> "save"
      [] p = "save" -> "increment"
      [] p = "increment" -> "loop"

ReportTrajectory ==
    /\ pc \in {"boot_trajectory", "report_trajectory"}
    /\ trajectory_xyz' = Append(trajectory_xyz, trajectory_block(sim))
    /\ hist' = Append(hist, "report_trajectory")
    /\ pc' = AfterPc(pc)
    /\ UNCHANGED <<exit, sim, data, restarted, pre, save_json, energy_txt,
                   velocity_txt, kinetic_txt, backend, runs,
                   rescaled, rescaled_log,
                   origin, calls>>

ReportEnergy ==
    /\ pc \in {"boot_energy", "report_energy"}
    /\ energy_txt' = Append(energy_txt, energy_line(sim))
    /\ hist' = Append(hist, "report_energy")
    /\ pc' = AfterPc(pc)
    /\ UNCHANGED <<exit, sim, data, restarted, pre, save_json, trajectory_xyz,
                   velocity_txt, kinetic_txt, backend, runs,
                   rescaled, rescaled_log,
                   origin, calls>>

ReportVelocity ==
    /\ pc = "boot_velocity"
    /\ velocity_txt' = Append(velocity_txt, velocity_block(sim))
    /\ hist' = Append(hist, "report_velocity")
    /\ pc' = AfterPc(pc)
    /\ UNCHANGED <<exit, sim, data, restarted, pre, save_json, trajectory_xyz,
                   energy_txt, kinetic_txt, backend, runs,
                   rescaled, rescaled_log,
                   origin, calls>>

ReportKinetic ==
    /\ pc = "boot_kinetic"
    /\ kinetic_txt' = Append(kinetic_txt, kinetic_block(sim))
    /\ hist' = Append(hist, "report_kinetic")
    /\ pc' = AfterPc(pc)
    /\ UNCHANGED <<exit, sim, data, restarted, pre, save_json, trajectory_xyz,
                   energy_txt, velocity_txt, backend, runs,
                   rescaled, rescaled_log,
                   origin, calls>>

\* what save leaves in save.json
save(lines, s) == Append(lines, Line(s))

Save ==
    /\ pc \in {"boot_save", "save"}
    /\ save_json' = save(save_json, sim)
    /\ rescaled_log' = Append(rescaled_log, rescaled)
    /\ hist' = Append(hist, "save")
    /\ pc' = AfterPc(pc)
    /\ UNCHANGED <<exit, sim, data, restarted, pre, trajectory_xyz, energy_txt,
                   velocity_txt, kinetic_txt, backend, runs, rescaled,
                   origin, calls>>

\* the write of save fails after part of the line reached the file
SaveTorn ==
    /\ pc \in {"boot_save", "save"}
    /\ save_json' = Append(save_json, Torn(sim))
    /\ rescaled_log' = Append(rescaled_log, rescaled)
    /\ Stopped("save")
    /\ UNCHANGED <<trajectory_xyz, energy_txt, velocity_txt, kinetic_txt, backend, runs>>

\* self.step_num += 1
Increment ==
    /\ pc \in {"boot_increment", "increment"}
    /\ sim' = [sim EXCEPT !.step_num = sim.step_num + 1]
    /\ hist' = <<>>
    /\ pc' = AfterPc(pc)
    /\ UNCHANGED <<exit, data, restarted, pre, files, backend, runs, rescaled, rescaled_log,
                   origin, calls>>

\* while self.step_num <= self.num_steps
LoopEnter ==
    /\ pc = "loop"
    /\ sim.step_num <= sim.num_steps
    /\ pre' = sim
    /\ pc' = "update_pos"
    /\ UNCHANGED <<exit, sim, data, restarted, hist, files, backend, runs, rescaled,
                   rescaled_log,
                   origin, calls>>

\* the loop ends, run and main return
LoopExit ==
    /\ pc = "loop"
    /\ ~(sim.step_num <= sim.num_steps)
    /\ Stopped("halted")
    /\ UNCHANGED <<files, backend, runs, rescaled_log>>

UpdatePos ==
    /\ pc = "update_pos"
    /\ sim' = update_pos(sim)
    /\ hist' = Append(hist, "update_pos")
    /\ pc' = AfterPc(pc)
    /\ UNCHANGED <<exit, data, restarted, pre, files, backend, runs, rescaled, rescaled_log,
                   origin, calls>>

Evaluate ==
    /\ pc = "evaluate"
    /\ CallGaussian
    /\ hist' = Append(hist, "evaluate")
    /\ pc' = AfterPc(pc)
    /\ UNCHANGED <<exit, sim, restarted, pre, files, runs, rescaled, rescaled_log,
                   origin>>

\* update_next_forces(data.forces).update_vel().update_pot(data.scf).update_kin().update_tot()
step_update(s, d) ==
    The({update_tot(s4) : s4 \in {update_kin(s3) : s3 \in {update_pot(s2, d.scf) :
         s2 \in {update_vel(s1) : s1 \in {update_next_forces(s, d.forces)}}}}})

UpdateVel ==
    /\ pc = "update_vel"
    /\ sim' = step_update(sim, data)
    /\ hist' = hist \o <<"update_next_forces", "update_vel", "update_pot", "update_kin",
                         "update_tot">>
    /\ pc' = AfterPc(pc)
    /\ UNCHANGED <<exit, data, restarted, pre, files, backend, runs, rescaled, rescaled_log,
                   origin, calls>>

\* a file operation panics (nothing written), or the process is killed
Abort ==
    /\ pc # "stopped"
    /\ Stopped("aborted")
    /\ UNCHANGED <<files, backend, runs, rescaled_log>>

Next ==
    \/ \E args \in Args, seed \in Seeds : MainNew(args, seed)
    \/ \E args \in RestartArgs : MainFromSave(args)
    \/ MainFromSavePanics
    \/ InitForces
    \/ EvaluatorFails
    \/ InitFiles
    \/ SkipBootstrap
    \/ ReportTrajectory
    \/ ReportEnergy
    \/ ReportVelocity
    \/ ReportKinetic
    \/ Save
    \/ SaveTorn
    \/ Increment
    \/ LoopEnter
    \/ LoopExit
    \/ UpdatePos
    \/ Evaluate
    \/ UpdateVel
    \/ Abort

Spec == Init /\ [][Next]_vars

\* The runs in which every evaluator call returns one force line per atom and
\* every write succeeds.  A started process is a sequential program: it takes
\* its next step unless it is killed.
LiveInit == Init /\ evaluator # "short"

Proceed ==
    \/ InitForces
    \/ InitFiles
    \/ SkipBootstrap
    \/ ReportTrajectory
    \/ ReportEnergy
    \/ ReportVelocity
    \/ ReportKinetic
    \/ Save
    \/ Increment
    \/ LoopEnter
    \/ LoopExit
    \/ UpdatePos
    \/ Evaluate
    \/ UpdateVel

LiveNext ==
    \/ \E args \in Args, seed \in Seeds : MainNew(args, seed)
    \/ \E args \in RestartArgs : MainFromSave(args)
    \/ MainFromSavePanics
    \/ Proceed
    \/ Abort

\* the positions of a process
Pcs ==
    {"stopped", "init_forces", "run", "boot_trajectory", "boot_energy", "boot_velocity",
     "boot_kinetic", "boot_save", "boot_increment", "loop", "update_pos", "evaluate",
     "update_vel", "report_trajectory", "report_energy", "save", "increment"}

\* a step of the running process rather than its being killed: under LiveNext
\* these are exactly the steps of Proceed, every one of them moves pc, and one
\* is possible whenever a process runs
ProcessStep == pc # "stopped" /\ pc' \in Pcs /\ exit' \in {"running", "halted"}

LiveSpec == LiveInit /\ [][LiveNext]_vars /\ WF_<<pc, exit>>(ProcessStep)

----------------------------------------------------------------------------
(* Properties *)

Last(seq) == seq[Len(seq)]

IsPrefix(a, b) == Len(a) <= Len(b) /\ SubSeq(b, 1, Len(a)) = a

\* positions of the process inside the body of the while loop
StepBody == {"update_pos", "evaluate", "update_vel"}

StepPcs == StepBody \cup {"report_trajectory", "report_energy", "save"}

\* the operations of one step, and of the bootstrap block of run, in order
StepOrder ==
    <<"update_pos", "evaluate", "update_next_forces", "update_vel", "update_pot",
      "update_kin", "update_tot", "report_trajectory", "report_energy", "save">>

BootOrder ==
    <<"report_trajectory", "report_energy", "report_velocity", "report_kinetic", "save">>

\* C1: step_num changes only by +1, only when a whole step (or the bootstrap
\* block, as step 0) has been done and its checkpoint is the last line of
\* save.json; a fresh run starts at 0 and a restarted one at the step number
\* of the last record plus one; the step body never runs with
\* step_num > num_steps.
C1_StepNumAdvance ==
    [][/\ (pc \in StepBody => sim.step_num <= sim.num_steps)
       /\ (pc' \in StepBody => sim'.step_num <= sim'.num_steps)
       /\ (pc # "stopped" /\ pc' # "stopped" /\ sim'.step_num # sim.step_num =>
              /\ sim'.step_num = sim.step_num + 1
              /\ hist \in {StepOrder, BootOrder}
              /\ save_json # <<>>
              /\ Last(save_json) = Line(sim))
       /\ (pc = "stopped" /\ pc' # "stopped" /\ ~restarted' => sim'.step_num = 0)
       /\ (pc = "stopped" /\ pc' # "stopped" /\ restarted' =>
              sim'.step_num = Last(save_json).json.step_num + 1)]_vars

C1_Witness ==
    /\ pc = "loop"
    /\ restarted
    /\ sim.step_num = sim.num_steps + 1
    /\ sim.num_steps > 0

\* every line of save.json carries the step number of its place, and only the
\* last line can be cut short
LogConsecutive ==
    \A k \in 1..Len(save_json) :
        /\ save_json[k].json.step_num = k - 1
        /\ (k < Len(save_json) => save_json[k].complete)

\* C2: save.json only grows by appending (but for the truncation by the
\* init_files of a fresh run): no step and no restart changes or removes a
\* line; every growth is one line, written by save, carrying the step number
\* of the step (0 for the bootstrap); the step numbers in the file are
\* 0, 1, 2, ... without gap or duplicate, across aborts and restarts; a run
\* that returns leaves num_steps + 1 records.
C2_AppendOnlyLog ==
    [][/\ LogConsecutive
       /\ LogConsecutive'
       /\ (~(pc = "run" /\ sim.step_num = 0) => IsPrefix(save_json, save_json'))
       /\ (save_json' # save_json /\ IsPrefix(save_json, save_json') =>
              /\ pc \in {"boot_save", "save"}
              /\ Len(save_json') = Len(save_json) + 1
              /\ Last(save_json').json.step_num = sim.step_num)
       /\ (pc = "loop" /\ exit' = "halted" =>
              /\ Len(save_json) = sim.num_steps + 1
              /\ \A k \in 1..Len(save_json) : save_json[k].complete)]_vars

C2_Witness ==
    /\ pc = "increment"
    /\ restarted
    /\ Len(save_json) = 3
    /\ runs = 3

\* C3: a restarted run starts from the last record of save.json, with its
\* step number plus one, and whatever step it executes has the step number
\* of the last record plus one, greater than that of every record in the file.
C3_RestartResumes ==
    [][/\ (pc = "stopped" /\ pc' # "stopped" /\ restarted' =>
              /\ save_json # <<>>
              /\ to_string([sim' EXCEPT !.step_num = sim'.step_num - 1])
                     = Last(save_json).json
              /\ sim'.step_num = Last(save_json).json.step_num + 1)
       /\ (restarted' /\ pc' \in StepPcs =>
              /\ sim'.step_num = Last(save_json').json.step_num + 1
              /\ \A k \in 1..Len(save_json') :
                    save_json'[k].json.step_num < sim'.step_num)
       /\ (restarted /\ save_json' # save_json /\ pc' # "stopped" =>
              \A k \in 1..Len(save_json) :
                  save_json[k].json.step_num < Last(save_json').json.step_num)]_vars

C3_Witness ==
    /\ pc = "update_pos"
    /\ restarted
    /\ Len(save_json) = 2
    /\ sim.step_num = 2

\* the record that follows record r in an uninterrupted run
NextRecord(r) ==
    The({The({step_update(moved, GaussianOutput_new(Gaussian(evaluator, gen_coords(moved)))) :
                 moved \in {update_pos(s)}}) :
            s \in {[r EXCEPT !.step_num = r.step_num + 1]}})

\* every record is the one an uninterrupted run writes after its predecessor
RecordsDeterministic ==
    \A k \in 2..Len(save_json) :
        (save_json[k].complete /\ parses(save_json[k - 1])) =>
            save_json[k].json = to_string(NextRecord(from_str(save_json[k - 1])))

\* C4: a run interrupted after the checkpoint of step k and restarted goes on
\* as the uninterrupted run: the restart succeeds whenever the last line of
\* save.json is a complete checkpoint, and every record is the one the
\* uninterrupted run writes after its predecessor.
C4_RestartDeterminism ==
    /\ RecordsDeterministic
    /\ (exit = "from_save_panic" => save_json = <<>> \/ ~Last(save_json).complete)

TrajectoryWritten(n) == \E k \in 1..Len(trajectory_xyz) : trajectory_xyz[k].of_step = n

EnergyWritten(n) == \E k \in 1..Len(energy_txt) : energy_txt[k].of_step = n

CheckpointWritten(n) ==
    \E k \in 1..Len(save_json) : save_json[k].complete /\ save_json[k].json.step_num = n

\* C5: when the process is gone, every step n >= 1 has its trajectory block,
\* its energy line and its checkpoint all written, or none of them.
C5_NoPartialStep ==
    pc = "stopped" =>
        \A n \in 1..MaxSteps :
            /\ TrajectoryWritten(n) = EnergyWritten(n)
            /\ EnergyWritten(n) = CheckpointWritten(n)

\* C6: after the velocity update of a step whose evaluator call returned one
\* force per atom, every mobile atom has pos = pos0 + v0*dt + 0.5*F0*(1/m)*dt^2
\* and vel = v0 + 0.5*(F0 + F1)*(1/m)*dt, for its values pos0, v0, F0 at the
\* start of the step and the force F1 read from the evaluator's answer to the
\* updated geometry; with the backend that returns zero forces, pos = pos0 +
\* v0*dt, and the velocities and the kinetic energy are those before the step.
C6_VelocityVerlet ==
    (pc = "report_trajectory" /\ Len(data.forces) = Len(sim.atoms)) =>
        /\ data = GaussianOutput_new(Gaussian(evaluator, gen_coords(sim)))
        /\ \A i \in 1..Len(sim.atoms) :
              pre.atoms[i].can_mv =>
                  LET a == pre.atoms[i]
                      b == sim.atoms[i]
                      dt == pre.time_step
                  IN  /\ b.pos = vec_add(vec_add(a.pos, vec_scale(a.vel, dt, 1)),
                                         vec_scale(a.force, dt * dt, 2 * a.mass))
                      /\ b.vel = vec_add(a.vel, vec_scale(vec_add(a.force, data.forces[i]),
                                                          dt, 2 * a.mass))
                      /\ (evaluator = "zero" =>
                             /\ b.pos = vec_add(a.pos, vec_scale(a.vel, dt, 1))
                             /\ b.vel = a.vel)
        /\ (evaluator = "zero" =>
               /\ sim.kin_energy = pre.kin_energy
               /\ \A i \in 1..Len(sim.atoms) : sim.atoms[i].vel = pre.atoms[i].vel)

C6_Witness ==
    /\ pc = "report_trajectory"
    /\ evaluator = "field"
    /\ sim.step_num = 2
    /\ sim.atoms[1].can_mv
    /\ pre.atoms[1].force # data.forces[1]
    /\ pre.atoms[1].force # ZeroVec
    /\ sim.atoms[1].vel # pre.atoms[1].vel

\* C7: an atom that is not mobile has its ingested position and the zero
\* velocity, in every state of every run.
C7_FrozenAtoms ==
    \A i \in 1..Len(sim.atoms) :
        ~sim.atoms[i].can_mv =>
            /\ sim.atoms[i].pos = InputPos(i)
            /\ sim.atoms[i].vel = ZeroVec

\* C8: the geometry written for the evaluator lists every atom, frozen or
\* not; after the velocity update every atom, frozen or mobile, has
\* force = next_force, the force read from the evaluator's answer for it.
C8_FrozenForces ==
    /\ (pc \in {"update_vel", "report_trajectory"} =>
           /\ Len(input_com) = Len(sim.atoms)
           /\ \A i \in 1..Len(sim.atoms) :
                 /\ input_com[i].symbol = sim.atoms[i].symbol
                 /\ Vector3D(input_com[i].x, input_com[i].y, input_com[i].z)
                        = sim.atoms[i].pos
           /\ data = GaussianOutput_new(forces_out))
    /\ (pc = "report_trajectory" =>
           \A i \in 1..Len(sim.atoms) :
               /\ sim.atoms[i].force = sim.atoms[i].next_force
               /\ (i <= Len(data.forces) => sim.atoms[i].force = data.forces[i]))

C8_Witness ==
    /\ pc = "report_trajectory"
    /\ \E i \in 1..Len(sim.atoms) :
          /\ ~sim.atoms[i].can_mv
          /\ i <= Len(data.forces)
          /\ sim.atoms[i].force # ZeroVec
          /\ sim.atoms[i].force # pre.atoms[i].force
    /\ \E i \in 1..Len(sim.atoms) : sim.atoms[i].can_mv

\* the species and masses of the input geometry, in its order
SameAtoms(atoms) ==
    /\ Len(atoms) = NumAtoms
    /\ \A i \in 1..NumAtoms :
          /\ atoms[i].symbol = gn_symbol(AtomicNumber(i)).symbol
          /\ atoms[i].mass = gn_symbol(AtomicNumber(i)).mass

\* C9: the atoms of the running simulation and of every checkpoint are those
\* of the input geometry, in its order; the geometry written for the evaluator
\* lists them in that order; the i-th force read from the evaluator's answer is
\* stored on the i-th atom, in force by the bootstrap and in next_force by a step.
C9_AtomOrder ==
    /\ (pc # "stopped" => SameAtoms(sim.atoms))
    /\ \A k \in 1..Len(save_json) : SameAtoms(save_json[k].json.atoms)
    /\ (pc \in {"update_vel", "report_trajectory"} =>
           input_com = [i \in 1..NumAtoms |->
                           [symbol |-> gn_symbol(AtomicNumber(i)).symbol,
                            x |-> sim.atoms[i].pos.x,
                            y |-> sim.atoms[i].pos.y,
                            z |-> sim.atoms[i].pos.z]])
    /\ (pc = "run" /\ ~restarted =>
           \A i \in 1..Len(data.forces) : sim.atoms[i].force = data.forces[i])
    /\ (pc = "report_trajectory" =>
           \A i \in 1..Len(data.forces) : sim.atoms[i].next_force = data.forces[i])

C9_Witness ==
    /\ pc = "run"
    /\ ~restarted
    /\ Len(data.forces) = NumAtoms
    /\ sim.atoms[1].force # sim.atoms[2].force
    /\ sim.atoms[1].symbol # sim.atoms[2].symbol

\* C10: the operations of a step happen in the order position update,
\* evaluator call (on the updated geometry), force and velocity update, energy
\* update, reports, checkpoint, and only then the increment; the position
\* update of a step begins with nothing of that step done and with the
\* checkpoint of the step before, holding the state the step starts from, as
\* the last line of save.json.
C10_StepOrder ==
    /\ (pc \in StepPcs \cup {"increment"} => IsPrefix(hist, StepOrder))
    /\ (pc = "increment" => hist = StepOrder)
    /\ (pc = "update_pos" =>
           /\ hist = <<>>
           /\ sim = pre
           /\ save_json # <<>>
           /\ Last(save_json) = Line([sim EXCEPT !.step_num = sim.step_num - 1]))
    /\ (pc = "update_vel" =>
           /\ hist = <<"update_pos", "evaluate">>
           /\ input_com = gen_coords(sim)
           /\ forces_out = Gaussian(evaluator, input_com)
           /\ data = GaussianOutput_new(forces_out))

C10_Witness ==
    /\ pc = "increment"
    /\ sim.step_num = 2
    /\ hist = StepOrder
    /\ sim.atoms # pre.atoms

\* C11: init_forces (one evaluator call on the ingested geometry, then the
\* thermostat rescale) runs in a fresh process only, once, before run and so
\* before the first step and the first checkpoint, and never in a restarted
\* process; the state in sim after it, and the state in every line of
\* save.json, has been rescaled by scale_temp exactly once, whatever the
\* number of restarts.
C11_BootstrapOnce ==
    /\ (pc = "init_forces" =>
           /\ ~restarted
           /\ rescaled = 0
           /\ sim.step_num = 0
           /\ \A i \in 1..Len(sim.atoms) : sim.atoms[i].pos = InputPos(i))
    /\ (pc \notin {"stopped", "init_forces"} => rescaled = 1)
    /\ (pc \in {"run", "boot_trajectory", "boot_energy", "boot_velocity", "boot_kinetic",
                "boot_save"} /\ ~restarted =>
           /\ sim.step_num = 0
           /\ input_com = gen_coords(sim)
           /\ (pc # "run" => save_json = <<>>))
    /\ Len(rescaled_log) = Len(save_json)
    /\ \A k \in 1..Len(rescaled_log) : rescaled_log[k] = 1

C11_Witness ==
    /\ pc = "save"
    /\ restarted
    /\ runs = 3
    /\ Len(save_json) = 2
    /\ rescaled = 1

\* a == b on f64 values: a NaN equals nothing
feq(a, b) == ~a.nan /\ ~b.nan /\ a = b

\* (sum over the atoms of 0.5 * mass * |vel|^2) times the energy unit
KineticOf(atoms) ==
    fscale(SumF64([i \in 1..Len(atoms) |-> fscale(sqr_norm(atoms[i].vel), atoms[i].mass, 2)],
                  Len(atoms)),
           KinUnit, 1)

\* C12: every complete line of save.json holds numbers with tot_energy =
\* pot_energy + kin_energy, kin_energy = the energy unit times the sum of
\* 0.5*m*|v|^2 over the velocities of the same line, and pot_energy = the
\* converted energy the evaluator returns for the geometry of the line.
C12_EnergyRecord ==
    \A k \in 1..Len(save_json) :
        save_json[k].complete =>
            /\ parses(save_json[k])
            /\ \E r \in {from_str(save_json[k])} :
                  /\ feq(r.tot_energy, fadd(r.pot_energy, r.kin_energy))
                  /\ feq(r.kin_energy, KineticOf(r.atoms))
                  /\ feq(r.pot_energy,
                         fscale(Gaussian(evaluator, gen_coords(r)).scf, 26255, 1000))

\* the reports and the checkpoint of a step
StepOutputs == {"report_trajectory", "report_energy", "save"}

\* C13: nothing of a step is written (no report, no checkpoint) unless
\* forces.out held one force line per atom when the step read it.
C13_EvaluatorFatal ==
    (pc \in StepPcs \cup {"increment"} /\ \E k \in 1..Len(hist) : hist[k] \in StepOutputs) =>
        Len(forces_out.forces) = Len(sim.atoms)

\* C14: when a process dies inside step n >= 1 of an evaluator failure or of
\* a failed write of the checkpoint, the last line of save.json is the
\* complete record of step n - 1 and from_save succeeds on the file, giving
\* step_num = n.
C14_AbortRecovery ==
    [][(pc \in StepPcs /\ exit' \in {"evaluator", "save"}) =>
           /\ save_json' # <<>>
           /\ Last(save_json').complete
           /\ Last(save_json').json.step_num = sim.step_num - 1
           /\ from_save_ok(save_json')
           /\ from_save(save_json').step_num = sim.step_num]_vars

\* C15: a restart panics in from_save only when save.json has no line that
\* parses: a cut last line after a well-formed record is passed over.
C15_TornTail ==
    exit = "from_save_panic" => ~(\E k \in 1..Len(save_json) : parses(save_json[k]))

\* the atoms that gn_atoms returns, for every outcome of the sampling
Ingested == [seed \in Seeds |-> gn_atoms(seed)]

\* the 1-based index i lies in some lo-hi range of the --freeze expression
InSomeRange(i, freeze) ==
    /\ freeze.some
    /\ \E k \in 1..Len(freeze.value) : freeze.value[k][1] <= i /\ i <= freeze.value[k][2]

\* C16: the atoms Simulation::new returns for a --freeze list of lo-hi ranges
\* are the ingested atoms, in their order, with can_mv = false and the zero
\* velocity for exactly those whose 1-based index lies in some range; every
\* other atom is mobile with its velocity from ingestion, and no position,
\* mass, species or force differs.
C16_FreezeRanges ==
    pc = "init_forces" =>
        /\ \E args \in Args, seed \in Seeds : sim = Fresh(args, seed)
        /\ \A args \in Args, seed \in Seeds :
              sim = Fresh(args, seed) =>
                  \E atoms \in {Ingested[seed]} :
                      /\ Len(sim.atoms) = Len(atoms)
                      /\ \A i \in 1..Len(atoms) :
                            /\ sim.atoms[i].can_mv = ~InSomeRange(i, args.freeze)
                            /\ sim.atoms[i].vel = IF InSomeRange(i, args.freeze)
                                                  THEN ZeroVec ELSE atoms[i].vel
                            /\ [sim.atoms[i] EXCEPT !.can_mv = TRUE, !.vel = ZeroVec]
                                   = [atoms[i] EXCEPT !.can_mv = TRUE, !.vel = ZeroVec]

C16_Witness ==
    /\ pc = "init_forces"
    /\ ~sim.atoms[NumAtoms].can_mv
    /\ sim.atoms[NumAtoms].vel = ZeroVec
    /\ sim.atoms[1].can_mv
    /\ sim.atoms[1].vel # ZeroVec

\* the sum over the atoms of mass * vel
Momentum(atoms) ==
    SumVec([i \in 1..Len(atoms) |-> vec_scale(atoms[i].vel, atoms[i].mass, 1)], Len(atoms))

\* C17: when init_forces is entered (after ingestion and the --freeze
\* expression), the sum over the atoms of mass * vel is the zero vector.
C17_ZeroMomentum ==
    pc = "init_forces" => Momentum(sim.atoms) = ZeroVec

\* the places in the source of the lines matching the per-atom pattern
MatchingPlaces == {k \in 1..Len(Buffer.lines) : Buffer.lines[k].matches}

\* the last c of them
LastPlaces(c) ==
    CHOOSE set \in SUBSET MatchingPlaces :
        /\ Cardinality(set) = c
        /\ \A a \in set, b \in MatchingPlaces \ set : b < a

\* the i-th smallest element of a set of numbers
NthOf(set, i) == CHOOSE k \in set : Cardinality({j \in set : j <= k}) = i

\* C18: the ingested atoms are as many as the "NAtoms=" count c of the
\* source, and the i-th atom has the atomic number and the coordinates of the
\* i-th of the last c lines matching the per-atom pattern; no atom has the
\* coordinates of the earlier geometry block.
C18_LastBlock ==
    pc = "init_forces" =>
        /\ Len(sim.atoms) = Buffer.natoms
        /\ \A i \in 1..Len(sim.atoms) :
              \E line \in {Buffer.lines[NthOf(LastPlaces(Buffer.natoms), i)]} :
                  /\ sim.atoms[i].pos = line.pos
                  /\ sim.atoms[i].symbol = gn_symbol(line.number).symbol
                  /\ sim.atoms[i].mass = gn_symbol(line.number).mass
                  /\ sim.atoms[i].pos = InputPos(i)
        /\ \A i, j \in 1..Len(sim.atoms) : sim.atoms[i].pos # EarlierPos(j)

C18_Witness ==
    /\ pc = "init_forces"
    /\ Cardinality(MatchingPlaces) = 2 * NumAtoms
    /\ sim.atoms[1].pos = InputPos(1)
    /\ sim.atoms[1].symbol # gn_symbol(Buffer.lines[2].number).symbol

RefTemp == 300

\* the temperature scale_temp derives from a kinetic energy,
\* T(kin) = (2/3) * ((kin * 100 * 1000) / 8.31446261815324), for a kin that is
\* a multiple c*S*S of the square of the scalar S = sqrt(RefTemp / T(kin0)):
\* T is linear, so T(kin) = c * RefTemp / kin0; -1 when kin has another form
Temperature(kin, kin0) ==
    IF kin.nan \/ Len(kin.p) # 3 THEN -1
    ELSE IF kin.p[1] # 0 \/ kin.p[2] # 0 THEN -1
    ELSE IF (kin.p[3] * RefTemp) % kin0.p[1] # 0 THEN -1
    ELSE (kin.p[3] * RefTemp) \div kin0.p[1]

\* C19: after init_forces, when the kinetic energy before scale_temp was
\* positive, the temperature derived from the recomputed kinetic energy is
\* the reference temperature.
C19_Thermostat ==
    (pc = "run" /\ ~restarted /\ ~pre.kin_energy.nan /\ pre.kin_energy # Zero) =>
        /\ Len(pre.kin_energy.p) = 1
        /\ pre.kin_energy.p[1] > 0
        /\ Temperature(sim.kin_energy, pre.kin_energy) = RefTemp
        /\ sim.kin_energy = KineticOf(sim.atoms)

C19_Witness ==
    /\ pc = "run"
    /\ ~restarted
    /\ ~pre.kin_energy.nan
    /\ pre.kin_energy # Zero
    /\ sim.kin_energy # pre.kin_energy
    /\ \E i \in 1..Len(sim.atoms) : ~sim.atoms[i].can_mv

\* C20: the atom list of an ingestion (no atom frozen) is the list every
\* ingestion of the same source gives, whatever the velocity samples drawn.
C20_IngestTwice ==
    (pc = "init_forces" /\ \A i \in 1..Len(sim.atoms) : sim.atoms[i].can_mv) =>
        \A seed \in Seeds : Ingested[seed] = sim.atoms


\* C21: run parameters that are not valid are rejected before the run begins:
\* a process given a time step that is not > 0 stops in Simulation::new, so
\* it never calls the evaluator, never creates or truncates a file and never
\* executes a step.
C21_ConfigRejected ==
    pc \notin {"stopped", "init_forces"} => sim.time_step > 0

\* the forces the evaluator returns for the geometry of a record of save.json
RecordForces(r) ==
    GaussianOutput_new(Gaussian(evaluator,
        [i \in 1..Len(r.atoms) |->
            [symbol |-> r.atoms[i].symbol, x |-> parse_f64(r.atoms[i].pos.x),
             y |-> parse_f64(r.atoms[i].pos.y), z |-> parse_f64(r.atoms[i].pos.z)]])).forces

\* C22: in the record of step 0 every atom is where the input put it, its
\* next_force is zero and its force is the force the evaluator returned for
\* that geometry; in the record of every step n >= 1 every atom has
\* force = next_force = the force the evaluator returned for the geometry of
\* the same record; and when a step begins, force is the force of the
\* current geometry.  The records are looked at when save has just written
\* one: save.json changes in no other way (C2).
C22_ForceRegisters ==
    /\ pc \in {"boot_increment", "increment"} => \A k \in 1..Len(save_json) :
          \E r \in {save_json[k].json} : \E f \in {RecordForces(r)} :
              \A i \in 1..Len(r.atoms) :
                  /\ (i <= Len(f) => r.atoms[i].force = json_vec(f[i]))
                  /\ (r.step_num = 0 =>
                         /\ r.atoms[i].next_force = json_vec(ZeroVec)
                         /\ r.atoms[i].pos = json_vec(InputPos(i)))
                  /\ (r.step_num >= 1 => r.atoms[i].next_force = r.atoms[i].force)
    /\ (pc = "update_pos" =>
           \E f \in {GaussianOutput_new(Gaussian(evaluator, gen_coords(sim))).forces} :
               \A i \in 1..Len(f) : sim.atoms[i].force = f[i])

C22_Witness ==
    /\ pc = "increment"
    /\ evaluator = "field"
    /\ sim.step_num = MaxSteps
    /\ \A k \in 1..Len(save_json) : save_json[k].complete
    /\ Last(save_json).json.atoms[1].force # json_vec(ZeroVec)
    /\ Last(save_json).json.atoms[1].force # save_json[1].json.atoms[1].force


\* what a Simulation, or a record of save.json, fixes for the whole run
Frame(s) ==
    [time_step |-> s.time_step, num_steps |-> s.num_steps,
     atoms |-> [i \in 1..Len(s.atoms) |->
                   [symbol |-> s.atoms[i].symbol, mass |-> s.atoms[i].mass,
                    can_mv |-> s.atoms[i].can_mv]]]

\* C23: a process started with --restart has the time step, the step count,
\* the atoms and their mobility flags of the last record of save.json,
\* whatever its command line says, and starting it touches no file; in every
\* state it reaches they are those of the last record; and no step of any
\* run changes the time step, the step count, or an atom's species, mass or
\* mobility flag.
C23_RestartFrame ==
    [][/\ (pc = "stopped" /\ restarted' =>
              /\ origin'.some
              /\ Frame(sim') = Frame(Last(save_json).json)
              /\ UNCHANGED <<files, backend>>)
       /\ (restarted' /\ pc' # "stopped" => Frame(sim') = Frame(Last(save_json').json))
       /\ (pc # "stopped" /\ pc' # "stopped" => Frame(sim') = Frame(sim))]_vars

C23_Witness ==
    /\ restarted
    /\ pc = "increment"
    /\ origin.value.args.time_step # sim.time_step
    /\ origin.value.args.num_steps # sim.num_steps
    /\ origin.value.args.freeze = None
    /\ \E i \in 1..Len(sim.atoms) : ~sim.atoms[i].can_mv
    /\ \E i \in 1..Len(sim.atoms) : sim.atoms[i].can_mv


\* C24: a fresh run empties save.json and the four report files, and only
\* after its bootstrap evaluator call has returned: no file changes while no
\* process runs or while the process is in init_forces, so a bootstrap that
\* fails leaves the files of the previous run as they were; right after the
\* step-0 checkpoint of a fresh run save.json holds that one record and each
\* report file one entry.
C24_FreshDiscards ==
    [][/\ (files' # files => pc \notin {"stopped", "init_forces"})
       /\ (pc = "init_forces" /\ pc' = "stopped" => UNCHANGED files)
       /\ (pc = "run" /\ ~restarted /\ pc' # "stopped" =>
              /\ calls = 1
              /\ data = GaussianOutput_new(forces_out)
              /\ files' = <<<<>>, <<>>, <<>>, <<>>, <<>>>>)
       /\ (pc' = "boot_increment" =>
              /\ save_json' = <<Line(sim')>>
              /\ sim'.step_num = 0
              /\ Len(trajectory_xyz') = 1
              /\ Len(energy_txt') = 1
              /\ Len(velocity_txt') = 1
              /\ Len(kinetic_txt') = 1)]_vars

\* the bootstrap of a second, fresh process failed over the complete log of
\* the first
C24_Witness ==
    /\ pc = "stopped"
    /\ exit = "evaluator"
    /\ runs = 2
    /\ Len(save_json) = MaxSteps + 1
    /\ from_save_ok(save_json)


\* C25: when every evaluator call is well formed and every write succeeds,
\* every process started over nothing or over a save.json that ends in a
\* record runs, and unless it is killed it ends by returning from run with
\* step_num = num_steps + 1 and num_steps + 1 records in save.json; by then a
\* fresh process has made num_steps + 1 evaluator calls and a process
\* restarted from the record of step k has made num_steps - k.
C25_Termination ==
    /\ [][/\ (runs' = runs + 1 /\ (restarted' \/ save_json # <<>>) => exit' = "running")
          /\ (exit' = "halted" =>
                 /\ pc = "loop"
                 /\ sim.step_num = sim.num_steps + 1
                 /\ Len(save_json) = sim.num_steps + 1
                 /\ (~restarted => calls = sim.num_steps + 1)
                 /\ (restarted =>
                        /\ origin.value.step_num - 1 <= sim.num_steps
                        /\ calls = sim.num_steps - (origin.value.step_num - 1)))]_vars
    /\ (exit = "running" ~> exit \in {"halted", "aborted"})

====
